---- MODULE Spec2Model ----
(***************************************************************************)
(* Model of the odrive-rust CAN driver: the cansimple identifier codec     *)
(* (cansimple/src/lib.rs) and the ODrive request/reply engine              *)
(* (odrive/src/can.rs) running against a socket whose receive queue is     *)
(* shared by every call made on the same ODrive value; then the pure       *)
(* functions of the library (identifier codec, Value codec, FlatEndpoints) *)
(* applied to inputs drawn from their domains.                             *)
(*                                                                         *)
(* TLC's integers are 32-bit signed, so an unsigned 32-bit word (u32, or   *)
(* the bit pattern of an f32) is kept as a record of two 16-bit halves     *)
(* [hi, lo]; bytes are 0..255; signed values are TLA+ integers.            *)
(***************************************************************************)
EXTENDS Integers, Sequences, FiniteSets, TLC

VARIABLES axis, task, rx, wire, delivered, log, call, ret

vars == <<axis, task, rx, wire, delivered, log, call, ret>>

(***************************************************************************)
(* Bounds of the model.                                                    *)
(***************************************************************************)
\* Total number of frames the bus delivers to the socket in one behaviour.
MaxRx == 2

(***************************************************************************)
(* Option and Result values.                                               *)
(***************************************************************************)
None == [some |-> FALSE]

Some(x) == [some |-> TRUE, val |-> x]

Ok(x) == [tag |-> "Ok", val |-> x]

Err(k) == [tag |-> "Err", kind |-> k]

\* io::ErrorKind::InvalidData, the kind the driver itself raises.
InvalidData == "InvalidData"

\* Error kinds the socket can report from write_frame / read_frame.
IoErrors == {"NetworkDown", "WouldBlock"}

\* `call` holds one call of a pure function of the library (the codec and
\* directory specifications below) and `ret` what it returned; the driver
\* specifications make no such call.
NoCall == [fn |-> "none"]

(***************************************************************************)
(* cansimple::Id                                                           *)
(***************************************************************************)
ID_MASK == 2047

NODE_MAX == 63

COMMAND_MAX == 31

\* Id::new shifting the node by four bits instead of five.
IdNewShiftFour(node, command) ==
    IF node <= NODE_MAX /\ command <= COMMAND_MAX
    THEN Some(node * 16 + command)
    ELSE None

\* Id::new without the check on node (the shift done in u16).
IdNewNodeUnchecked(node, command) ==
    IF command <= COMMAND_MAX
    THEN Some((node * 32 + command) % 65536)
    ELSE None

\* Id::new: None unless node <= 63 and command <= 31, else (node << 5) | command.
IdNew(node, command) ==
    IF node <= NODE_MAX /\ command <= COMMAND_MAX
    THEN Some(node * 32 + command)
    ELSE None

\* Id::from_raw keeping twelve bits.
IdFromRawTwelveBits(raw) == raw % 4096

\* Id::from_raw without the mask.
IdFromRawUnmasked(raw) == raw

\* Id::from_raw: raw & 0x7FF.
IdFromRaw(raw) == raw % (ID_MASK + 1)

\* Id::command: raw & 0x1F.
IdCommand(id) == id % 32

\* Id::node: raw >> 5, cast to u8.
IdNode(id) == (id \div 32) % 256

\* Id::as_raw: the wrapped u16.
IdAsRaw(id) == id

\* embedded_can::StandardId::new as From<Id> for StandardId calls it: None
\* above 0x7FF (the conversion unwraps it).
StandardIdNew(raw) == IF raw <= 2047 THEN Some(raw) ELSE None

\* From<StandardId> for Id: wraps the standard identifier's raw value.
IdFromStandard(sid) == sid

\* What a caller can observe of an Id: as_raw, node, command and the
\* StandardId::new result that From<Id> for StandardId unwraps.
IdView(id) ==
    [raw      |-> IdAsRaw(id),
     node     |-> IdNode(id),
     command  |-> IdCommand(id),
     standard |-> StandardIdNew(IdAsRaw(id))]

(***************************************************************************)
(* embedded_can::Id and socketcan::CanFrame as the driver uses them.       *)
(***************************************************************************)
\* From<Id> for embedded_can::Id: always the Standard variant.
StdId(raw) == [ext |-> FALSE, raw |-> raw]

ExtId(raw) == [ext |-> TRUE, raw |-> raw]

\* CanFrame::new(id, data): None when the payload is longer than 8 bytes.
CanFrameNew(id, data) ==
    IF Len(data) <= 8
    THEN Some([id |-> StdId(id), rtr |-> FALSE, data |-> data])
    ELSE None

\* CanFrame::new(id, &[]) in place of new_remote: an empty data frame.
CanFrameNewRemoteAsData(id, dlc) ==
    IF dlc <= 8
    THEN Some([id |-> StdId(id), rtr |-> FALSE, data |-> <<>>])
    ELSE None

\* CanFrame::new_remote(id, dlc): a remote frame carries no data.
CanFrameNewRemote(id, dlc) ==
    IF dlc <= 8
    THEN Some([id |-> StdId(id), rtr |-> TRUE, data |-> <<>>])
    ELSE None

(***************************************************************************)
(* Little-endian byte helpers (to_le_bytes / from_le_bytes).               *)
(***************************************************************************)
W32(hi, lo) == [hi |-> hi, lo |-> lo]

\* u8 / i8 -> 1 byte (two's complement).
LE1(x) == <<x % 256>>

\* u16 / i16 -> 2 bytes, most significant first (to_be_bytes).
LE2BigEndian(x) == <<(x \div 256) % 256, x % 256>>

\* u16 / i16 -> 2 bytes.
LE2(x) == <<x % 256, (x \div 256) % 256>>

\* i32 -> 4 bytes (floor division keeps two's complement for negatives).
LE4(x) == <<x % 256, (x \div 256) % 256, (x \div 65536) % 256, (x \div 16777216) % 256>>

\* u32 / f32 bit pattern -> 4 bytes.
LEW(w) == LE2(w.lo) \o LE2(w.hi)

U16FromLE(b0, b1) == b0 + 256 * b1

I8FromLE(b0) == IF b0 >= 128 THEN b0 - 256 ELSE b0

\* i16::from_le_bytes without the sign.
I16FromLEUnsigned(b0, b1) == U16FromLE(b0, b1)

I16FromLE(b0, b1) ==
    IF U16FromLE(b0, b1) >= 32768 THEN U16FromLE(b0, b1) - 65536 ELSE U16FromLE(b0, b1)

U32FromLE(b0, b1, b2, b3) == W32(U16FromLE(b2, b3), U16FromLE(b0, b1))

I32FromLE(b0, b1, b2, b3) ==
    U16FromLE(b0, b1)
      + 65536 * (U16FromLE(b2, b3) - (IF b3 >= 128 THEN 65536 ELSE 0))

(***************************************************************************)
(* can::Value / can::ValueKind                                             *)
(***************************************************************************)
ValueKinds == {"Bool", "U8", "I8", "U16", "I16", "U32", "I32", "Float"}

Value(kind, v) == [kind |-> kind, v |-> v]

\* Value::to_le_bytes widening the narrow signed kinds to i32 first, so that
\* the sign fills the upper bytes.
ValueToLeBytesSignExtends(value) ==
    CASE value.kind = "Bool"  -> <<IF value.v THEN 1 ELSE 0, 0, 0, 0>>
      [] value.kind = "U8"    -> <<value.v, 0, 0, 0>>
      [] value.kind = "I8"    -> LE4(value.v)
      [] value.kind = "U16"   -> <<LE2(value.v)[1], LE2(value.v)[2], 0, 0>>
      [] value.kind = "I16"   -> LE4(value.v)
      [] value.kind = "U32"   -> LEW(value.v)
      [] value.kind = "I32"   -> LE4(value.v)
      [] value.kind = "Float" -> LEW(value.v)

\* Value::to_le_bytes without the padding: as many bytes as the kind is wide.
ValueToLeBytesUnpadded(value) ==
    CASE value.kind = "Bool"  -> <<IF value.v THEN 1 ELSE 0>>
      [] value.kind = "U8"    -> <<value.v>>
      [] value.kind = "I8"    -> LE1(value.v)
      [] value.kind = "U16"   -> LE2(value.v)
      [] value.kind = "I16"   -> LE2(value.v)
      [] value.kind = "U32"   -> LEW(value.v)
      [] value.kind = "I32"   -> LE4(value.v)
      [] value.kind = "Float" -> LEW(value.v)

\* Value::to_le_bytes: always 4 bytes, unused trailing bytes zero.
ValueToLeBytes(value) ==
    CASE value.kind = "Bool"  -> <<IF value.v THEN 1 ELSE 0, 0, 0, 0>>
      [] value.kind = "U8"    -> <<value.v, 0, 0, 0>>
      [] value.kind = "I8"    -> <<LE1(value.v)[1], 0, 0, 0>>
      [] value.kind = "U16"   -> <<LE2(value.v)[1], LE2(value.v)[2], 0, 0>>
      [] value.kind = "I16"   -> <<LE2(value.v)[1], LE2(value.v)[2], 0, 0>>
      [] value.kind = "U32"   -> LEW(value.v)
      [] value.kind = "I32"   -> LE4(value.v)
      [] value.kind = "Float" -> LEW(value.v)

\* The match at the end of sdo_read taking every non-zero byte as true.
DecodeValueNonZeroIsTrue(kind, data) ==
    CASE kind = "Bool"  -> Value("Bool", data[1] # 0)
      [] kind = "U8"    -> Value("U8", data[1])
      [] kind = "I8"    -> Value("I8", I8FromLE(data[1]))
      [] kind = "U16"   -> Value("U16", U16FromLE(data[1], data[2]))
      [] kind = "I16"   -> Value("I16", I16FromLE(data[1], data[2]))
      [] kind = "U32"   -> Value("U32", U32FromLE(data[1], data[2], data[3], data[4]))
      [] kind = "I32"   -> Value("I32", I32FromLE(data[1], data[2], data[3], data[4]))
      [] kind = "Float" -> Value("Float", U32FromLE(data[1], data[2], data[3], data[4]))

\* The match at the end of sdo_read: `data` is payload bytes 4..8.
DecodeValue(kind, data) ==
    CASE kind = "Bool"  -> Value("Bool", data[1] = 1)
      [] kind = "U8"    -> Value("U8", data[1])
      [] kind = "I8"    -> Value("I8", I8FromLE(data[1]))
      [] kind = "U16"   -> Value("U16", U16FromLE(data[1], data[2]))
      [] kind = "I16"   -> Value("I16", I16FromLE(data[1], data[2]))
      [] kind = "U32"   -> Value("U32", U32FromLE(data[1], data[2], data[3], data[4]))
      [] kind = "I32"   -> Value("I32", I32FromLE(data[1], data[2], data[3], data[4]))
      [] kind = "Float" -> Value("Float", U32FromLE(data[1], data[2], data[3], data[4]))

(***************************************************************************)
(* AxisErrors (bitflags over u32 with `const _ = !0`).                     *)
(***************************************************************************)
RECURSIVE BitAnd(_, _)
BitAnd(x, y) ==
    IF x = 0 \/ y = 0
    THEN 0
    ELSE (x % 2) * (y % 2) + 2 * BitAnd(x \div 2, y \div 2)

\* AxisErrors::all().bits() without `const _ = !0`: the union of the 22 named
\* flags, 0x5F01_FF7F.
AxisErrorsNamedOnly == W32(24321, 65407)

\* AxisErrors::all().bits(): every bit is a known flag because of `const _ = !0`.
AxisErrorsAll == W32(65535, 65535)

\* AxisErrors::from_bits_truncate(bits) = bits & all().
FromBitsTruncate(w) == W32(BitAnd(w.hi, AxisErrorsAll.hi), BitAnd(w.lo, AxisErrorsAll.lo))

(***************************************************************************)
(* The command catalog: which operation uses which command id and shape.   *)
(***************************************************************************)
\* Operations that request their reply with a remote frame.
RtrOps ==
    {"get_version", "get_error", "get_encoder_estimates", "get_iq",
     "get_temperature", "get_bus_voltage_current", "get_torques", "get_powers"}

\* Operations that only transmit.
FireOps ==
    {"estop", "sdo_write", "set_axis_state", "set_controller_mode",
     "set_input_position", "set_input_velocity", "set_input_torque", "set_lmits",
     "set_trajectory_velocity_limit", "set_trajectory_acceleration_limit",
     "set_trajectory_inertia", "reboot", "save_configuration",
     "erase_configuration", "enter_dfu_mode2", "clear_errors",
     "set_absolute_position", "set_position_gain", "set_velocity_gains"}

QueryOps == RtrOps \cup {"sdo_read"}

\* The command id each operation passes to Id::new for its request frame.
Command(op) ==
    CASE op = "get_version" -> 0
      [] op = "estop" -> 2
      [] op = "get_error" -> 3
      [] op = "sdo_write" -> 4
      [] op = "sdo_read" -> 4
      [] op = "set_axis_state" -> 7
      [] op = "get_encoder_estimates" -> 9
      [] op = "set_controller_mode" -> 11
      [] op = "set_input_position" -> 12
      [] op = "set_input_velocity" -> 13
      [] op = "set_input_torque" -> 14
      [] op = "set_lmits" -> 15
      [] op = "set_trajectory_velocity_limit" -> 17
      [] op = "set_trajectory_acceleration_limit" -> 18
      [] op = "set_trajectory_inertia" -> 19
      [] op = "get_iq" -> 20
      [] op = "get_temperature" -> 21
      [] op = "reboot" -> 22
      [] op = "get_bus_voltage_current" -> 23
      [] op = "save_configuration" -> 22
      [] op = "erase_configuration" -> 22
      [] op = "enter_dfu_mode2" -> 22
      [] op = "clear_errors" -> 24
      [] op = "set_absolute_position" -> 25
      [] op = "set_position_gain" -> 26
      [] op = "set_velocity_gains" -> 27
      [] op = "get_torques" -> 28
      [] op = "get_powers" -> 29

\* The command id of the frames a query waits for: sdo_read listens on 0x05,
\* every remote-request query on the command it requested.
SDO_REPLY == 5

ReplyCommand(op) == IF op = "sdo_read" THEN SDO_REPLY ELSE Command(op)

\* The payload each operation builds from its arguments (`a` is the argument tuple).
Payload(op, a) ==
    CASE op \in RtrOps -> <<>>
      [] op = "estop" -> <<>>
      [] op = "sdo_write" -> <<1>> \o LE2(a[1]) \o <<0>> \o ValueToLeBytes(a[2])
      [] op = "sdo_read" -> <<0>> \o LE2(a[1]) \o <<0>> \o LEW(W32(0, 0))
      [] op = "set_axis_state" -> LEW(W32(0, a[1]))
      [] op = "set_controller_mode" -> LE1(a[1]) \o LE1(a[2])
      [] op = "set_input_position" -> LEW(a[1]) \o LE2(a[2]) \o LE2(a[3])
      [] op = "set_input_velocity" -> LEW(a[1]) \o LEW(a[2])
      [] op = "set_input_torque" -> LEW(a[1])
      [] op = "set_lmits" -> LEW(a[1]) \o LEW(a[2])
      [] op = "set_trajectory_velocity_limit" -> LEW(a[1])
      [] op = "set_trajectory_acceleration_limit" -> LEW(a[1]) \o LEW(a[2])
      [] op = "set_trajectory_inertia" -> LEW(a[1])
      [] op = "reboot" -> <<0>>
      [] op = "save_configuration" -> <<1>>
      [] op = "erase_configuration" -> <<2>>
      [] op = "enter_dfu_mode2" -> <<3>>
      [] op = "clear_errors" -> <<IF a[1] THEN 1 ELSE 0>>
      [] op = "set_absolute_position" -> LEW(a[1])
      [] op = "set_position_gain" -> LEW(a[1])
      [] op = "set_velocity_gains" -> LEW(a[1]) \o LEW(a[2])

\* The request frame: a remote frame for the remote-request queries, a data
\* frame carrying Payload for everything else.
RequestFrame(id, op, a) ==
    IF op \in RtrOps THEN CanFrameNewRemote(id, 0) ELSE CanFrameNew(id, Payload(op, a))

\* How a remote-request query turns the 8 reply bytes into its result.
DecodeReply(op, d) ==
    CASE op = "get_version" ->
           [protocol_version |-> d[1], hw_version_major |-> d[2],
            hw_version_minor |-> d[3], hw_version_variant |-> d[4],
            fw_version_major |-> d[5], fw_version_minor |-> d[6],
            fw_version_revision |-> d[7], fw_version_unreleased |-> (d[8] = 1)]
      [] op = "get_error" ->
           [active_errors |-> FromBitsTruncate(U32FromLE(d[1], d[2], d[3], d[4])),
            disarm_reason |-> FromBitsTruncate(U32FromLE(d[5], d[6], d[7], d[8]))]
      [] op = "get_encoder_estimates" ->
           [position |-> U32FromLE(d[1], d[2], d[3], d[4]),
            velocity |-> U32FromLE(d[5], d[6], d[7], d[8])]
      [] op = "get_iq" ->
           <<U32FromLE(d[1], d[2], d[3], d[4]), U32FromLE(d[5], d[6], d[7], d[8])>>
      [] op = "get_temperature" ->
           [fet |-> U32FromLE(d[1], d[2], d[3], d[4]),
            motor |-> U32FromLE(d[5], d[6], d[7], d[8])]
      [] op = "get_bus_voltage_current" ->
           [voltage |-> U32FromLE(d[1], d[2], d[3], d[4]),
            current |-> U32FromLE(d[5], d[6], d[7], d[8])]
      [] op = "get_torques" ->
           [target |-> U32FromLE(d[1], d[2], d[3], d[4]),
            estimate |-> U32FromLE(d[5], d[6], d[7], d[8])]
      [] op = "get_powers" ->
           [electrical |-> U32FromLE(d[1], d[2], d[3], d[4]),
            mechanical |-> U32FromLE(d[5], d[6], d[7], d[8])]

(***************************************************************************)
(* Inputs: the calls a caller makes and the frames the bus can deliver.    *)
(***************************************************************************)
Tasks == {1, 2}

\* The axis handed to ODrive::new (a u8; nothing validates it there).
Axes == {1, 63, 64}

\* A node on the bus other than the ones in Axes.
OtherNode == 2

\* The heartbeat command: no operation of the driver waits for it.
Heartbeat == 1

Endpoints == {1, 2}

\* An endpoint id that needs both of its bytes (0x0201).
WideEndpoint == 513

\* f32 arguments as bit patterns: 0.0 and 1.234 (0x3F9DF3B6).
F32s == {W32(0, 0), W32(16285, 62390)}

SampleValues ==
    {Value("Bool", TRUE), Value("U8", 200), Value("I8", -2), Value("U16", 4660),
     Value("I16", -2), Value("U32", W32(65535, 65534)), Value("I32", -2),
     Value("Float", W32(16285, 62390))}

Call(op, args) == [op |-> op, args |-> args]

Calls ==
    {Call(op, <<>>) : op \in RtrOps \cup {"estop", "reboot", "save_configuration",
                                          "erase_configuration", "enter_dfu_mode2"}}
    \cup {Call("sdo_read", <<e, k>>) : e \in Endpoints, k \in ValueKinds}
    \cup {Call("sdo_write", <<e, v>>) : e \in Endpoints, v \in SampleValues}
    \cup {Call("sdo_read", <<WideEndpoint, "U16">>),
          Call("sdo_write", <<WideEndpoint, Value("Float", W32(16285, 62390))>>)}
    \cup {Call("set_axis_state", <<s>>) : s \in {1, 8}}
    \cup {Call("set_controller_mode", <<3, 5>>)}
    \cup {Call("set_input_position", <<f, -1, 1000>>) : f \in F32s}
    \cup {Call(op, <<f, W32(0, 0)>>) :
            op \in {"set_input_velocity", "set_lmits", "set_velocity_gains",
                    "set_trajectory_acceleration_limit"}, f \in F32s}
    \cup {Call(op, <<f>>) :
            op \in {"set_input_torque", "set_trajectory_velocity_limit",
                    "set_trajectory_inertia", "set_absolute_position",
                    "set_position_gain"}, f \in F32s}
    \cup {Call("clear_errors", <<b>>) : b \in BOOLEAN}

\* Reply payloads: endpoint 1 / float 1.234; endpoint 2 with a non-zero opcode
\* byte; endpoint 257 (same low byte as endpoint 1) with a non-zero reserved byte.
PayloadA == <<0, 1, 0, 0, 182, 243, 157, 63>>

PayloadB == <<1, 2, 0, 0, 1, 0, 0, 128>>

PayloadC == <<0, 1, 1, 9, 255, 255, 255, 255>>

\* The payload a well-formed reply to call c carries.
GoodData(c) ==
    IF c.op = "sdo_read" /\ c.args[1] = 2 THEN PayloadB ELSE PayloadA

Frame(id, rtr, data) == [id |-> id, rtr |-> rtr, data |-> data]

\* Raw identifier of the frames call c listens for (for choosing bus traffic).
ReplyRaw(ax, c) == IdFromRaw(ax * 32 + ReplyCommand(c.op))

\* Frames carrying the identifier call c waits for: every payload length 0..8,
\* three different 8-byte payloads, and a remote frame.
ReplyIdFrames(ax, c) ==
    {Frame(StdId(ReplyRaw(ax, c)), FALSE, d) : d \in {PayloadA, PayloadB, PayloadC}}
    \cup {Frame(StdId(ReplyRaw(ax, c)), FALSE, SubSeq(GoodData(c), 1, n)) : n \in 0..7}
    \cup {Frame(StdId(ReplyRaw(ax, c)), TRUE, <<>>)}

\* Frames with another identifier: same command from another node, another
\* command from the same node, the request identifier itself, and an extended
\* identifier with the same numeric value.
OtherIdFrames(ax, c) ==
    {Frame(StdId(OtherNode * 32 + ReplyCommand(c.op)), FALSE, GoodData(c)),
     Frame(StdId(IdFromRaw(ax * 32 + Heartbeat)), FALSE, GoodData(c)),
     Frame(StdId(IdFromRaw(ax * 32 + Command(c.op))), FALSE, GoodData(c)),
     Frame(ExtId(ReplyRaw(ax, c)), FALSE, GoodData(c))}

BusFrames(ax, c) ==
    IF c.op \in QueryOps
    THEN ReplyIdFrames(ax, c) \cup OtherIdFrames(ax, c)
    ELSE {Frame(StdId(ReplyRaw(ax, c)), FALSE, PayloadA),
          Frame(StdId(IdFromRaw(ax * 32 + Heartbeat)), FALSE, PayloadA)}

(***************************************************************************)
(* State.                                                                  *)
(*   axis       ODrive.axis                                                *)
(*   task[t]    one call made on the ODrive: its arguments, where it is    *)
(*              (ready / recv / done / panicked) and its result            *)
(*   rx         the socket's receive queue (ODrive.interface, read side)   *)
(*   wire       frames write_frame has put on the bus                      *)
(*   delivered  history: every frame ever queued in rx, in order           *)
(*   log[t]     history: what call t did (tx, rx, rxerr events), in order  *)
(***************************************************************************)
NoFrame == Frame(StdId(0), FALSE, <<>>)

Event(ev, frame, res) == [ev |-> ev, frame |-> frame, res |-> res]

Absent == [pc |-> "absent", op |-> "none", args |-> <<>>, result |-> None]

Ready(c) == [pc |-> "ready", op |-> c.op, args |-> c.args, result |-> None]

\* The call returns `r` to its caller.
Return(c, r) == [c EXCEPT !.pc = "done", !.result = r]

\* The call aborts (unwrap on None, index out of bounds).
Panic(c) == [c EXCEPT !.pc = "panicked"]

\* ODrive::new(interface, axis) followed by the caller choosing one call.
Init ==
    /\ axis \in Axes
    /\ task \in {[t \in Tasks |-> IF t = 1 THEN Ready(c) ELSE Absent] : c \in Calls}
    /\ rx = <<>>
    /\ wire = <<>>
    /\ delivered = <<>>
    /\ log = [t \in Tasks |-> <<>>]
    /\ call = NoCall
    /\ ret = None

(***************************************************************************)
(* The steps of a call.                                                    *)
(***************************************************************************)
\* Whether the operation goes on to read frames after a successful transmit.
AwaitsReply(op) == op \in QueryOps

\* Variant: the transmit outcome is dropped (`let _ = write_frame(..).await`).
AfterTransmitIgnoresError(c, outcome) ==
    IF AwaitsReply(c.op) THEN [c EXCEPT !.pc = "recv"] ELSE Return(c, Ok("unit"))

\* `write_frame(..).await?` / `write_frame(..).await`: what the call does with
\* the transmit outcome.
AfterTransmit(c, outcome) ==
    IF outcome # "Ok"
    THEN Return(c, Err(outcome))
    ELSE IF AwaitsReply(c.op) THEN [c EXCEPT !.pc = "recv"] ELSE Return(c, Ok("unit"))

\* Variant: only the command bits of the identifier are compared.
IdMatchesCommandOnly(f, id) == ~f.id.ext /\ IdCommand(f.id.raw) = IdCommand(id)

\* `frame.id() == id.into()` in the receive loops.
IdMatches(f, id) == f.id = StdId(id)

\* The check after the loop: `frame.data().len() != 8`.
LengthValid(data) == Len(data) = 8

\* A remote-request query after `break frame`: length check, then decode.
RtrFinish(c, f) ==
    IF ~LengthValid(f.data)
    THEN Return(c, Err(InvalidData))
    ELSE Return(c, Ok(DecodeReply(c.op, f.data)))

\* Variant: the length is checked inside the loop, so a reply of the wrong
\* length is skipped like a frame with another identifier.
RtrOnFrameSkipsBadLength(ax, c, f) ==
    IF IdMatches(f, IdNew(ax, Command(c.op)).val) /\ LengthValid(f.data)
    THEN RtrFinish(c, f)
    ELSE c

\* Variant: the loop gives up with a timeout error on the first frame that
\* does not match.
RtrOnFrameGivesUp(ax, c, f) ==
    IF IdMatches(f, IdNew(ax, Command(c.op)).val)
    THEN RtrFinish(c, f)
    ELSE Return(c, Err("TimedOut"))

\* One iteration of the loop of a remote-request query on frame f.
RtrOnFrame(ax, c, f) ==
    IF IdMatches(f, IdNew(ax, Command(c.op)).val) THEN RtrFinish(c, f) ELSE c

\* sdo_read after `break frame`: length check, then decode bytes 4..8 by kind.
SdoFinish(c, f) ==
    IF ~LengthValid(f.data)
    THEN Return(c, Err(InvalidData))
    ELSE Return(c, Ok(DecodeValue(c.args[2], SubSeq(f.data, 5, 8))))

\* Variant: only the low byte of the echoed endpoint is read.
RxEndpointLowByte(data) == IF Len(data) < 3 THEN None ELSE Some(data[2])

\* `u16::from_le_bytes([frame.data()[1], frame.data()[2]])`: indexing a payload
\* shorter than 3 bytes is out of bounds.
RxEndpoint(data) == IF Len(data) < 3 THEN None ELSE Some(U16FromLE(data[2], data[3]))

\* Variant: the loop also wants the read opcode in byte 0 of the reply.
SdoOnFrameChecksOpcode(ax, c, f) ==
    IF IdMatches(f, IdNew(ax, SDO_REPLY).val)
    THEN IF ~RxEndpoint(f.data).some
         THEN Panic(c)
         ELSE IF RxEndpoint(f.data).val = c.args[1] /\ f.data[1] = 0
              THEN SdoFinish(c, f)
              ELSE c
    ELSE c

\* One iteration of the loop of sdo_read on frame f.
SdoOnFrame(ax, c, f) ==
    IF IdMatches(f, IdNew(ax, SDO_REPLY).val)
    THEN IF ~RxEndpoint(f.data).some
         THEN Panic(c)
         ELSE IF RxEndpoint(f.data).val = c.args[1] THEN SdoFinish(c, f) ELSE c
    ELSE c

\* Variant: a failed receive is retried instead of returned.
OnReceiveErrorRetries(c, e) == c

\* `read_frame().await?` returning an error.
OnReceiveError(c, e) == Return(c, Err(e))

\* `Id::new(self.axis, cmd).unwrap()` on None, or `CanFrame::new(..).unwrap()`
\* on None: the call aborts before anything is transmitted.
BuildPanics(t) ==
    /\ task[t].pc = "ready"
    /\ \/ ~IdNew(axis, Command(task[t].op)).some
       \/ /\ IdNew(axis, Command(task[t].op)).some
          /\ ~RequestFrame(IdNew(axis, Command(task[t].op)).val, task[t].op, task[t].args).some
    /\ task' = [task EXCEPT ![t] = Panic(task[t])]
    /\ UNCHANGED <<axis, rx, wire, delivered, log, call, ret>>

\* Variant: the call empties the socket's queue before it transmits.
TransmitFlushes(t) ==
    /\ task[t].pc = "ready"
    /\ IdNew(axis, Command(task[t].op)).some
    /\ LET id == IdNew(axis, Command(task[t].op)).val
           fr == RequestFrame(id, task[t].op, task[t].args)
       IN  /\ fr.some
           /\ \E outcome \in {"Ok"} \cup IoErrors :
                /\ wire' = IF outcome = "Ok" THEN Append(wire, fr.val) ELSE wire
                /\ log' = [log EXCEPT ![t] = Append(@, Event("tx", fr.val, outcome))]
                /\ task' = [task EXCEPT ![t] = AfterTransmit(task[t], outcome)]
    /\ rx' = <<>>
    /\ UNCHANGED <<axis, delivered, call, ret>>

\* The call builds its request frame and hands it to write_frame, which
\* succeeds (the frame is on the bus) or fails with an error.
Transmit(t) ==
    /\ task[t].pc = "ready"
    /\ IdNew(axis, Command(task[t].op)).some
    /\ LET id == IdNew(axis, Command(task[t].op)).val
           fr == RequestFrame(id, task[t].op, task[t].args)
       IN  /\ fr.some
           /\ \E outcome \in {"Ok"} \cup IoErrors :
                /\ wire' = IF outcome = "Ok" THEN Append(wire, fr.val) ELSE wire
                /\ log' = [log EXCEPT ![t] = Append(@, Event("tx", fr.val, outcome))]
                /\ task' = [task EXCEPT ![t] = AfterTransmit(task[t], outcome)]
    /\ UNCHANGED <<axis, rx, delivered, call, ret>>

\* Variant: read_frame hands the head of the queue to the call and leaves it
\* there for the next reader (every waiter sees every frame).
ReceivePeeks(t) ==
    /\ task[t].pc = "recv"
    /\ rx # <<>>
    /\ log' = [log EXCEPT ![t] = Append(@, Event("rx", Head(rx), "Ok"))]
    /\ task' = [task EXCEPT ![t] =
                  IF task[t].op = "sdo_read"
                  THEN SdoOnFrame(axis, task[t], Head(rx))
                  ELSE RtrOnFrame(axis, task[t], Head(rx))]
    /\ UNCHANGED <<axis, rx, wire, delivered, call, ret>>

\* read_frame returns the frame at the head of the socket's queue; the call
\* runs one loop iteration on it (and, on a match, everything after the loop).
Receive(t) ==
    /\ task[t].pc = "recv"
    /\ rx # <<>>
    /\ rx' = Tail(rx)
    /\ log' = [log EXCEPT ![t] = Append(@, Event("rx", Head(rx), "Ok"))]
    /\ task' = [task EXCEPT ![t] =
                  IF task[t].op = "sdo_read"
                  THEN SdoOnFrame(axis, task[t], Head(rx))
                  ELSE RtrOnFrame(axis, task[t], Head(rx))]
    /\ UNCHANGED <<axis, wire, delivered, call, ret>>

\* read_frame fails: the error goes to the caller through `?`.
ReceiveFails(t) ==
    /\ task[t].pc = "recv"
    /\ \E e \in IoErrors :
         /\ log' = [log EXCEPT ![t] = Append(@, Event("rxerr", NoFrame, e))]
         /\ task' = [task EXCEPT ![t] = OnReceiveError(task[t], e)]
    /\ UNCHANGED <<axis, rx, wire, delivered, call, ret>>

\* The bus queues one more frame in the socket (any time, also before the
\* request is transmitted).  Traffic arriving after the last call has ended
\* is left out: nothing reads it.
Deliver ==
    /\ Len(delivered) < MaxRx
    /\ \E t \in Tasks :
         /\ task[t].pc \in {"ready", "recv"}
         /\ \E f \in BusFrames(axis, task[t]) :
              /\ rx' = Append(rx, f)
              /\ delivered' = Append(delivered, f)
    /\ UNCHANGED <<axis, task, wire, log, call, ret>>

Step(t) == BuildPanics(t) \/ Transmit(t) \/ Receive(t) \/ ReceiveFails(t)

Next == Deliver \/ \E t \in Tasks : Step(t)

Spec == Init /\ [][Next]_vars

(***************************************************************************)
(* Fair scheduling: a call waiting in read_frame is woken and polled when  *)
(* the socket has a frame, so Receive is not postponed forever.            *)
(***************************************************************************)
FairCalls ==
    {Call("get_version", <<>>), Call("get_encoder_estimates", <<>>),
     Call("sdo_read", <<1, "Float">>), Call("sdo_read", <<2, "I32">>),
     Call("estop", <<>>)}

FairInit ==
    /\ axis \in Axes
    /\ task \in {[t \in Tasks |-> IF t = 1 THEN Ready(c) ELSE Absent] : c \in FairCalls}
    /\ rx = <<>>
    /\ wire = <<>>
    /\ delivered = <<>>
    /\ log = [t \in Tasks |-> <<>>]
    /\ call = NoCall
    /\ ret = None

FairSpec == FairInit /\ [][Next]_vars /\ \A t \in Tasks : WF_vars(Receive(t))

(***************************************************************************)
(* Two calls in flight on the same ODrive (the futures of two `&self`      *)
(* methods polled concurrently), with a device that answers each request   *)
(* on the bus once.                                                        *)
(***************************************************************************)
ConcCalls ==
    {Call("get_version", <<>>), Call("get_encoder_estimates", <<>>),
     Call("sdo_read", <<1, "Float">>), Call("sdo_read", <<2, "I32">>)}

\* The frame the device sends in answer to request frame `req`: the data frame
\* a remote request asks for, or the parameter reply echoing the endpoint.
ReplyTo(req) ==
    IF req.rtr
    THEN Frame(req.id, FALSE, PayloadA)
    ELSE Frame(StdId(IdNode(req.id.raw) * 32 + SDO_REPLY), FALSE,
               IF U16FromLE(req.data[2], req.data[3]) = 2 THEN PayloadB ELSE PayloadA)

Count(seq, x) == Cardinality({i \in DOMAIN seq : seq[i] = x})

\* The device answers a request that is on the bus and not yet answered.
DeviceReplies ==
    /\ \E i \in DOMAIN wire :
         /\ Count(delivered, ReplyTo(wire[i])) < Count(wire, wire[i])
         /\ rx' = Append(rx, ReplyTo(wire[i]))
         /\ delivered' = Append(delivered, ReplyTo(wire[i]))
    /\ UNCHANGED <<axis, task, wire, log, call, ret>>

ConcInit ==
    /\ axis \in Axes
    /\ task \in {[t \in Tasks |-> Ready(cs[t])] : cs \in [Tasks -> ConcCalls]}
    /\ rx = <<>>
    /\ wire = <<>>
    /\ delivered = <<>>
    /\ log = [t \in Tasks |-> <<>>]
    /\ call = NoCall
    /\ ret = None

ConcNext == DeviceReplies \/ \E t \in Tasks : Step(t)

ConcSpec == ConcInit /\ [][ConcNext]_vars

(***************************************************************************)
(* Vocabulary of the properties, stated from the wire format and not from  *)
(* the operators above.                                                    *)
(***************************************************************************)
\* Frame f carries the standard identifier (node << 5) | command.
HasIdentifier(f, node, command) == ~f.id.ext /\ f.id.raw = node * 32 + command

\* Frame f echoes endpoint e in payload bytes 1..3 (little-endian u16).
EchoesEndpoint(f, e) ==
    /\ Len(f.data) >= 3
    /\ f.data[2] % 256 = e % 256
    /\ f.data[3] = e \div 256

\* Frame f is what call c waits for.
Wanted(ax, c, f) ==
    IF c.op = "sdo_read"
    THEN HasIdentifier(f, ax, 5) /\ EchoesEndpoint(f, c.args[1])
    ELSE HasIdentifier(f, ax, Command(c.op))

\* The frames call t has received so far, in the order it received them.
Received(t) ==
    [i \in 1..(Len(log[t]) - 1) |-> log[t][i + 1].frame]

\* Call t transmitted its request and every later event is a received frame.
OnlyReceived(t) ==
    /\ Len(log[t]) >= 1
    /\ log[t][1].ev = "tx" /\ log[t][1].res = "Ok"
    /\ \A i \in 2..Len(log[t]) : log[t][i].ev = "rx"

Last(seq) == seq[Len(seq)]

Returned(t) == task[t].pc = "done"

Waiting(t) == task[t].pc = "recv"

\* Only call 1 is made (the other task is never started).
Alone(t) == \A u \in Tasks \ {t} : task[u].pc = "absent"

(***************************************************************************)
(* C1: a remote-request query on axis a with command c returns the decode  *)
(* of the first frame, in stream order, whose identifier is (a << 5) | c;  *)
(* every frame before it has another identifier and is discarded: it gives *)
(* neither an error nor a result, the call just keeps waiting.             *)
(***************************************************************************)
C1_FirstMatchingFrame ==
    \A t \in Tasks :
      (task[t].op \in RtrOps /\ OnlyReceived(t)) =>
        LET got == Received(t)
            hits == {i \in DOMAIN got : HasIdentifier(got[i], axis, Command(task[t].op))}
        IN  /\ Alone(t) => got = SubSeq(delivered, 1, Len(got))
            /\ hits = {} => Waiting(t) /\ task[t].result = None
            /\ hits # {} =>
                 /\ hits = {Len(got)}
                 /\ Returned(t)
                 /\ Len(Last(got).data) = 8 =>
                      task[t].result = Ok(DecodeReply(task[t].op, Last(got).data))

\* A query returned a value after discarding a frame that has the same command
\* but another node.
C1_Witness ==
    \E t \in Tasks :
      /\ task[t].op \in RtrOps /\ Returned(t) /\ task[t].result.tag = "Ok"
      /\ Len(log[t]) = 3
      /\ log[t][2].frame.id = StdId(OtherNode * 32 + Command(task[t].op))

(***************************************************************************)
(* C2: sdo_read(endpoint, kind) returns the value decoded with `kind` from *)
(* payload bytes 4..8 of the first frame with identifier (a, 0x05) whose   *)
(* bytes 1..3 equal the endpoint; a frame on that identifier echoing       *)
(* another endpoint is skipped and never returned.                         *)
(***************************************************************************)
C2_SdoReadFirstMatch ==
    \A t \in Tasks :
      (task[t].op = "sdo_read" /\ OnlyReceived(t)) =>
        LET got == Received(t)
            hits == {i \in DOMAIN got : Wanted(axis, task[t], got[i])}
            other == {i \in DOMAIN got :
                        /\ HasIdentifier(got[i], axis, 5)
                        /\ Len(got[i].data) >= 3
                        /\ ~EchoesEndpoint(got[i], task[t].args[1])}
        IN  /\ Alone(t) => got = SubSeq(delivered, 1, Len(got))
            /\ \A i \in other : i < Len(got) \/ Waiting(t)
            /\ hits # {} => hits = {Len(got)} /\ Returned(t)
            /\ (Returned(t) /\ task[t].result.tag = "Ok") =>
                 /\ hits = {Len(got)}
                 /\ task[t].result.val =
                      DecodeValue(task[t].args[2], SubSeq(Last(got).data, 5, 8))

\* sdo_read returned a value after skipping a reply that echoes another endpoint.
C2_Witness ==
    \E t \in Tasks :
      /\ task[t].op = "sdo_read" /\ Returned(t) /\ task[t].result.tag = "Ok"
      /\ Len(log[t]) = 3
      /\ HasIdentifier(log[t][2].frame, axis, 5)
      /\ Len(log[t][2].frame.data) = 8
      /\ ~EchoesEndpoint(log[t][2].frame, task[t].args[1])

(***************************************************************************)
(* C3: two sdo_read calls for different endpoints, both requests sent      *)
(* before either reply is received, each return their own value whichever  *)
(* order the two replies arrive in: no reply is consumed and discarded by  *)
(* the other call, so once both replies have been read and nothing failed, *)
(* both calls have returned the value of their own endpoint.               *)
(***************************************************************************)
C3_ConcurrentSdoReads ==
    (/\ \A t \in Tasks : task[t].op = "sdo_read" /\ OnlyReceived(t)
     /\ task[1].args[1] # task[2].args[1]
     /\ Len(wire) = 2)
    =>
    /\ \A t \in Tasks : \A u \in Tasks \ {t} : \A i \in DOMAIN Received(u) :
         ~Wanted(axis, task[t], Received(u)[i])
    /\ (Len(delivered) = 2 /\ rx = <<>>) =>
         \A t \in Tasks :
           /\ Returned(t)
           /\ task[t].result =
                Ok(DecodeValue(task[t].args[2], SubSeq(GoodData(task[t]), 5, 8)))

(***************************************************************************)
(* C4: two queries for different commands interleave safely on one inbound *)
(* stream: when each reply is delivered once, no frame is consumed by the  *)
(* wrong waiter and both queries complete with their own reply.            *)
(***************************************************************************)
C4_InterleavedQueries ==
    (/\ \A t \in Tasks : task[t].op \in QueryOps /\ OnlyReceived(t)
     /\ ReplyCommand(task[1].op) # ReplyCommand(task[2].op)
     /\ Len(wire) = 2)
    =>
    /\ \A t \in Tasks : \A u \in Tasks \ {t} : \A i \in DOMAIN Received(u) :
         ~Wanted(axis, task[t], Received(u)[i])
    /\ (Len(delivered) = 2 /\ rx = <<>>) =>
         \A t \in Tasks : Returned(t) /\ task[t].result.tag = "Ok"

(***************************************************************************)
(* C5: in a remote-request query, a frame with the expected identifier     *)
(* whose payload is not 8 bytes long ends the call with InvalidData: it is *)
(* the last thing the call receives, and the request was sent only once.   *)
(***************************************************************************)
C5_BadLengthIsTerminal ==
    \A t \in Tasks :
      task[t].op \in RtrOps =>
        \A i \in DOMAIN log[t] :
          (/\ log[t][i].ev = "rx"
           /\ HasIdentifier(log[t][i].frame, axis, Command(task[t].op))
           /\ Len(log[t][i].frame.data) # 8)
          =>
          /\ i = Len(log[t])
          /\ Returned(t)
          /\ task[t].result = Err("InvalidData")
          /\ Cardinality({j \in DOMAIN log[t] : log[t][j].ev = "tx"}) = 1
          /\ Alone(t) => Len(wire) = 1 /\ Len(rx) = Len(delivered) - (i - 1)

\* A 7-byte reply ended a query with InvalidData while another frame is still
\* unread in the queue.
C5_Witness ==
    \E t \in Tasks :
      /\ task[t].op \in RtrOps /\ Returned(t)
      /\ task[t].result = Err("InvalidData")
      /\ Len(Last(log[t]).frame.data) = 7
      /\ rx # <<>>

(***************************************************************************)
(* C6: sdo_read handles every frame on (axis, 0x05) with a payload of 0 to *)
(* 8 bytes without an out-of-range access or abort, and a reply whose      *)
(* payload is not exactly 8 bytes (also one shorter than 3 bytes) ends the *)
(* call with InvalidData.                                                  *)
(***************************************************************************)
C6_SdoReadAnyLength ==
    \A t \in Tasks :
      (task[t].op = "sdo_read" /\ axis <= 63) =>
        /\ task[t].pc # "panicked"
        /\ \A i \in DOMAIN log[t] :
             (/\ log[t][i].ev = "rx"
              /\ HasIdentifier(log[t][i].frame, axis, 5)
              /\ Len(log[t][i].frame.data) # 8
              /\ \/ Len(log[t][i].frame.data) < 3
                 \/ EchoesEndpoint(log[t][i].frame, task[t].args[1]))
             => Returned(t) /\ task[t].result = Err("InvalidData")

(***************************************************************************)
(* C7: a fire-and-forget operation transmits exactly one frame and never   *)
(* receives: the inbound queue is untouched and the result is the result   *)
(* of the transmit (success, or the transmit error).                       *)
(***************************************************************************)
C7_FireAndForget ==
    \A t \in Tasks :
      task[t].op \in FireOps =>
        /\ ~Waiting(t)
        /\ \A i \in DOMAIN log[t] : log[t][i].ev = "tx"
        /\ Alone(t) => rx = delivered
        /\ axis <= 63 => task[t].pc \in {"ready", "done"}
        /\ Returned(t) =>
             /\ Len(log[t]) = 1
             /\ log[t][1].frame.id = StdId(axis * 32 + Command(task[t].op))
             /\ task[t].result =
                  (IF log[t][1].res = "Ok" THEN Ok("unit") ELSE Err(log[t][1].res))
             /\ Alone(t) =>
                  wire = (IF log[t][1].res = "Ok" THEN <<log[t][1].frame>> ELSE <<>>)

\* A fire-and-forget call returned Ok with frames waiting unread in the queue.
C7_Witness ==
    \E t \in Tasks :
      /\ task[t].op \in FireOps /\ Returned(t)
      /\ task[t].result = Ok("unit")
      /\ Len(wire) = 1 /\ Len(rx) = MaxRx

(***************************************************************************)
(* C8: no query retries: the request is transmitted at most once and only  *)
(* as the first thing the call does; a failed transmit is returned without *)
(* receiving anything; a failed receive is returned at once, with no       *)
(* retransmission and no further receive.                                  *)
(***************************************************************************)
C8_NoRetry ==
    \A t \in Tasks :
      task[t].op \in QueryOps =>
        /\ \A i \in DOMAIN log[t] : log[t][i].ev = "tx" <=> i = 1
        /\ Alone(t) => Len(wire) <= 1
        /\ \A i \in DOMAIN log[t] :
             (log[t][i].ev = "rxerr" \/ (log[t][i].ev = "tx" /\ log[t][i].res # "Ok"))
             =>
             /\ i = Len(log[t])
             /\ Returned(t)
             /\ task[t].result = Err(log[t][i].res)
        /\ (Len(log[t]) >= 1 /\ log[t][1].res # "Ok") =>
             /\ wire = <<>>
             /\ Alone(t) => rx = delivered

\* A receive error ended a query that had already discarded a frame, with
\* another frame still unread.
C8_Witness ==
    \E t \in Tasks :
      /\ task[t].op \in QueryOps /\ Returned(t)
      /\ Len(log[t]) = 3
      /\ Last(log[t]).ev = "rxerr"
      /\ rx # <<>>

(***************************************************************************)
(* C9: a query returns only after it received the frame it waits for or    *)
(* after the transport reported an error: however many other frames it has *)
(* read, it is still waiting (no timeout, no cap).  Under fair scheduling  *)
(* of the waiting call, a wanted frame in the queue that the call can get  *)
(* to is eventually received and the call returns.                         *)
(***************************************************************************)
\* Frame f makes sdo_read abort instead of being skipped (see C6).
Aborts(ax, c, f) ==
    c.op = "sdo_read" /\ HasIdentifier(f, ax, 5) /\ Len(f.data) < 3

\* The queue holds a frame call t waits for, behind frames it only discards.
Reachable(t) ==
    \E i \in DOMAIN rx :
      /\ Wanted(axis, task[t], rx[i])
      /\ \A j \in 1..(i - 1) : ~Aborts(axis, task[t], rx[j])

C9_ReturnsOnlyOnMatchOrError ==
    \A t \in Tasks :
      task[t].op \in QueryOps =>
        /\ Returned(t) =>
             \/ Last(log[t]).res # "Ok"
             \/ Last(log[t]).ev = "rx" /\ Wanted(axis, task[t], Last(log[t]).frame)
        /\ (/\ OnlyReceived(t)
            /\ \A i \in DOMAIN Received(t) :
                 /\ ~Wanted(axis, task[t], Received(t)[i])
                 /\ ~Aborts(axis, task[t], Received(t)[i]))
           => Waiting(t)

C9_BlocksUntilReply ==
    /\ []C9_ReturnsOnlyOnMatchOrError
    /\ \A t \in Tasks : (Waiting(t) /\ Reachable(t)) ~> Returned(t)

\* A query has read and discarded every frame the bus delivered and is still
\* waiting on an empty queue.
C9_Witness ==
    \E t \in Tasks :
      /\ task[t].op \in QueryOps /\ Waiting(t)
      /\ Len(log[t]) = 1 + MaxRx
      /\ rx = <<>>

(***************************************************************************)
(* C10: with an axis above 63 every operation fails with an error result   *)
(* returned to the caller, and nothing is transmitted.                     *)
(***************************************************************************)
C10_RangeErrorReturned ==
    \A t \in Tasks :
      (axis > 63 /\ task[t].pc \notin {"absent", "ready"}) =>
        /\ Returned(t)
        /\ task[t].result.tag = "Err"
        /\ wire = <<>>

(***************************************************************************)
(* The identifier codec on its own: one call of a constructor of Id with   *)
(* an argument drawn from the whole domain of its type.  `ret` is None     *)
(* until the call is made and Some(result) afterwards.                     *)
(***************************************************************************)
U8 == 0..255

U16 == 0..65535

\* No driver call is in progress.
NoDriver ==
    /\ axis = 0
    /\ task = [t \in Tasks |-> Absent]
    /\ rx = <<>>
    /\ wire = <<>>
    /\ delivered = <<>>
    /\ log = [t \in Tasks |-> <<>>]

\* One call, its argument any value of its type (a StandardId holds a value
\* in 0..=0x7FF).
IdInit ==
    /\ NoDriver
    /\ ret = None
    /\ \/ \E n \in U8, c \in U8 : call = [fn |-> "Id::new", node |-> n, command |-> c]
       \/ \E r \in U16 : call = [fn |-> "Id::from_raw", raw |-> r]
       \/ \E r \in 0..ID_MASK : call = [fn |-> "Id::from(StandardId)", raw |-> r]

\* Id::new(node, command), then the accessors on the Id it gave, if any.
NewId ==
    /\ call.fn = "Id::new"
    /\ ret = None
    /\ ret' = Some(LET id == IdNew(call.node, call.command)
                   IN  IF id.some THEN Some(IdView(id.val)) ELSE None)
    /\ UNCHANGED <<axis, task, rx, wire, delivered, log, call>>

\* Id::from_raw(raw), then from_raw again on what as_raw returned.
FromRaw ==
    /\ call.fn = "Id::from_raw"
    /\ ret = None
    /\ ret' = Some([id    |-> IdView(IdFromRaw(call.raw)),
                    again |-> IdView(IdFromRaw(IdAsRaw(IdFromRaw(call.raw))))])
    /\ UNCHANGED <<axis, task, rx, wire, delivered, log, call>>

\* Id::from(standard_id) for a StandardId holding call.raw.
FromStandard ==
    /\ call.fn = "Id::from(StandardId)"
    /\ ret = None
    /\ ret' = Some(IdView(IdFromStandard(call.raw)))
    /\ UNCHANGED <<axis, task, rx, wire, delivered, log, call>>

IdNext == NewId \/ FromRaw \/ FromStandard

IdSpec == IdInit /\ [][IdNext]_vars

\* x | y.
BitOr(x, y) == x + y - BitAnd(x, y)

\* The Ids the call produced.
IdsMade ==
    IF ~ret.some THEN {}
    ELSE CASE call.fn = "Id::new" -> IF ret.val.some THEN {ret.val.val} ELSE {}
           [] call.fn = "Id::from_raw" -> {ret.val.id, ret.val.again}
           [] call.fn = "Id::from(StandardId)" -> {ret.val}
           [] OTHER -> {}

(***************************************************************************)
(* C11: for every node in 0..=63 and command in 0..=31, Id::new succeeds   *)
(* with raw value (node << 5) | command, and node() and command() of the   *)
(* result return the inputs.                                               *)
(***************************************************************************)
C11_NewRoundTrip ==
    (call.fn = "Id::new" /\ ret.some /\ call.node <= 63 /\ call.command <= 31) =>
        /\ ret.val.some
        /\ ret.val.val.raw = BitOr(call.node * 32, call.command)
        /\ ret.val.val.node = call.node
        /\ ret.val.val.command = call.command

\* Id::new(63, 31) gave the largest identifier, 0x7FF.
C11_Witness ==
    /\ call.fn = "Id::new" /\ call.node = 63 /\ call.command = 31
    /\ ret.some /\ ret.val.some
    /\ ret.val.val.raw = 2047

(***************************************************************************)
(* C12: Id::new fails for every node above 63 whatever the command and for *)
(* every command above 31 whatever the node, (64, 0) and (0, 32) among     *)
(* them, and succeeds in exactly the remaining cases.                      *)
(***************************************************************************)
C12_NewRange ==
    (call.fn = "Id::new" /\ ret.some) =>
        (ret.val.some <=> (call.node <= 63 /\ call.command <= 31))

\* Id::new(64, 0) returned None.
C12_Witness ==
    /\ call.fn = "Id::new" /\ call.node = 64 /\ call.command = 0
    /\ ret.some /\ ~ret.val.some

(***************************************************************************)
(* C13: for every 16-bit raw, from_raw(raw).as_raw() = raw & 0x7FF, doing  *)
(* from_raw again on that changes nothing, node() is the masked value      *)
(* shifted right by five and command() is the masked value & 0x1F.         *)
(***************************************************************************)
C13_FromRawMasks ==
    (call.fn = "Id::from_raw" /\ ret.some) =>
        /\ ret.val.id.raw = BitAnd(call.raw, 2047)
        /\ ret.val.again.raw = ret.val.id.raw
        /\ ret.val.id.node = BitAnd(call.raw, 2047) \div 32
        /\ ret.val.id.command = BitAnd(BitAnd(call.raw, 2047), 31)

\* from_raw(0xFFFF) dropped the five bits above the identifier.
C13_Witness ==
    /\ call.fn = "Id::from_raw" /\ call.raw = 65535
    /\ ret.some
    /\ ret.val.id.raw = 2047

(***************************************************************************)
(* C14: every Id, whether made by Id::new, from_raw or from a StandardId,  *)
(* has raw <= 0x7FF, node <= 63 and command <= 31, so StandardId::new on   *)
(* its raw value gives a StandardId and the conversion's unwrap succeeds.  *)
(***************************************************************************)
C14_IdAlwaysValid ==
    \A id \in IdsMade :
        /\ id.raw <= 2047
        /\ id.node <= 63
        /\ id.command <= 31
        /\ id.standard = Some(id.raw)

\* An Id made from the StandardId 0x7FF converts back to it.
C14_Witness ==
    /\ call.fn = "Id::from(StandardId)" /\ call.raw = 2047
    /\ ret.some
    /\ ret.val.standard = Some(2047)

(***************************************************************************)
(* The Value codec on its own: Value::to_le_bytes on a value, then the     *)
(* decode of sdo_read on a reply carrying those bytes; and the decode of   *)
(* sdo_read on a reply whose value bytes are arbitrary.                    *)
(***************************************************************************)
\* 16-bit halves from which 32-bit words (u32, f32 bit patterns) are drawn.
Halves == {0, 1, 255, 256, 32767, 32768, 65535, 16285, 62390}

I32s ==
    {-2147483647 - 1, -2147483647, -16777217, -16777216, -65537, -65536, -32769,
     -32768, -257, -256, -129, -128, -2, -1, 0, 1, 127, 128, 255, 256, 32767,
     32768, 65535, 65536, 16777215, 16777216, 2147483647}

\* Bytes 5..7 of a reply when byte 4 runs over every value.
OtherBytes == {0, 1, 255}

\* The reply to a read of endpoint e carrying the four value bytes.
SdoReplyFrame(e, bytes) ==
    Frame(StdId(IdNew(1, SDO_REPLY).val), FALSE, <<0>> \o LE2(e) \o <<0>> \o bytes)

ValueInit ==
    /\ NoDriver
    /\ ret = None
    /\ \/ \E b \in BOOLEAN : call = [fn |-> "Value::to_le_bytes", value |-> Value("Bool", b)]
       \/ \E u \in U8 : call = [fn |-> "Value::to_le_bytes", value |-> Value("U8", u)]
       \/ \E i \in -128..127 : call = [fn |-> "Value::to_le_bytes", value |-> Value("I8", i)]
       \/ \E u \in U16 : call = [fn |-> "Value::to_le_bytes", value |-> Value("U16", u)]
       \/ \E i \in -32768..32767 :
            call = [fn |-> "Value::to_le_bytes", value |-> Value("I16", i)]
       \/ \E h \in Halves, l \in Halves, k \in {"U32", "Float"} :
            call = [fn |-> "Value::to_le_bytes", value |-> Value(k, W32(h, l))]
       \/ \E i \in I32s : call = [fn |-> "Value::to_le_bytes", value |-> Value("I32", i)]
       \/ \E k \in ValueKinds, b0 \in U8, b1 \in OtherBytes, b2 \in OtherBytes, b3 \in OtherBytes :
            call = [fn |-> "decode", kind |-> k, data |-> <<b0, b1, b2, b3>>]

\* value.to_le_bytes().
ToLeBytes ==
    /\ call.fn = "Value::to_le_bytes"
    /\ ret = None
    /\ ret' = Some([bytes |-> ValueToLeBytes(call.value)])
    /\ UNCHANGED <<axis, task, rx, wire, delivered, log, call>>

\* sdo_read of the value's kind finishing on a reply that carries the bytes
\* to_le_bytes gave.
ReadBack ==
    /\ call.fn = "Value::to_le_bytes"
    /\ ret.some
    /\ DOMAIN ret.val = {"bytes"}
    /\ ret' = Some([bytes   |-> ret.val.bytes,
                    decoded |-> SdoFinish(Ready(Call("sdo_read", <<1, call.value.kind>>)),
                                          SdoReplyFrame(1, ret.val.bytes)).result])
    /\ UNCHANGED <<axis, task, rx, wire, delivered, log, call>>

\* sdo_read of kind call.kind finishing on a reply whose bytes 4..8 are call.data.
DecodeOnly ==
    /\ call.fn = "decode"
    /\ ret = None
    /\ ret' = Some(SdoFinish(Ready(Call("sdo_read", <<1, call.kind>>)),
                             SdoReplyFrame(1, call.data)).result)
    /\ UNCHANGED <<axis, task, rx, wire, delivered, log, call>>

ValueNext == ToLeBytes \/ ReadBack \/ DecodeOnly

ValueSpec == ValueInit /\ [][ValueNext]_vars

\* The unsigned reading of a signed value of the given width in bits.
Unsigned8(v) == IF v < 0 THEN v + 256 ELSE v

Unsigned16(v) == IF v < 0 THEN v + 65536 ELSE v

(***************************************************************************)
(* C15: Value::to_le_bytes gives exactly 4 bytes, little-endian and        *)
(* left-packed: Bool, U8 and I8 fill byte 0, U16 and I16 bytes 0..2, U32,  *)
(* I32 and Float all four; the bytes a kind does not fill are zero; Bool   *)
(* is 1 or 0; signed kinds are in two's complement.                        *)
(***************************************************************************)
C15_ToLeBytesLayout ==
    (call.fn = "Value::to_le_bytes" /\ ret.some) =>
        LET b == ret.val.bytes
            k == call.value.kind
            v == call.value.v
        IN  /\ Len(b) = 4
            /\ \A i \in 1..4 : b[i] \in 0..255
            /\ k = "Bool" => b = <<IF v THEN 1 ELSE 0, 0, 0, 0>>
            /\ k = "U8" => b = <<v, 0, 0, 0>>
            /\ k = "I8" => b = <<Unsigned8(v), 0, 0, 0>>
            /\ k = "U16" => b[1] + 256 * b[2] = v /\ b[3] = 0 /\ b[4] = 0
            /\ k = "I16" => b[1] + 256 * b[2] = Unsigned16(v) /\ b[3] = 0 /\ b[4] = 0
            /\ k \in {"U32", "Float"} =>
                  b[1] + 256 * b[2] = v.lo /\ b[3] + 256 * b[4] = v.hi
            /\ k = "I32" =>
                  b[1] + 256 * b[2] + 65536 * b[3]
                    + 16777216 * (IF b[4] >= 128 THEN b[4] - 256 ELSE b[4]) = v

\* Value::Float(1.234).to_le_bytes() gave [0xb6, 0xf3, 0x9d, 0x3f].
C15_Witness ==
    /\ call.fn = "Value::to_le_bytes"
    /\ call.value = Value("Float", W32(16285, 62390))
    /\ ret.some
    /\ ret.val.bytes = <<182, 243, 157, 63>>

(***************************************************************************)
(* C16: for every kind and every value v of it, the decode of sdo_read     *)
(* with that kind on the bytes Value::to_le_bytes gave for v yields v.     *)
(***************************************************************************)
C16_RoundTrip ==
    (call.fn = "Value::to_le_bytes" /\ ret.some /\ "decoded" \in DOMAIN ret.val) =>
        ret.val.decoded = Ok(call.value)

\* The smallest i32 came back from its four bytes.
C16_Witness ==
    /\ call.fn = "Value::to_le_bytes"
    /\ call.value = Value("I32", -2147483647 - 1)
    /\ ret.some
    /\ "decoded" \in DOMAIN ret.val
    /\ ret.val.bytes = <<0, 0, 0, 128>>
    /\ ret.val.decoded = Ok(Value("I32", -2147483647 - 1))

(***************************************************************************)
(* C17: a reply decoded with kind Bool gives true exactly when payload     *)
(* byte 4 is 1; 0 and every value in 2..=255 give false, not an error,     *)
(* whatever the other three value bytes are.                               *)
(***************************************************************************)
C17_BoolDecode ==
    (call.fn = "decode" /\ call.kind = "Bool" /\ ret.some) =>
        ret.val = Ok(Value("Bool", call.data[1] = 1))

\* Byte 4 = 2 with the other value bytes 0xFF decoded to false.
C17_Witness ==
    /\ call.fn = "decode" /\ call.kind = "Bool"
    /\ call.data = <<2, 255, 255, 255>>
    /\ ret = Some(Ok(Value("Bool", FALSE)))

(***************************************************************************)
(* C18: every request frame of sdo_read and sdo_write is a data frame on   *)
(* identifier (axis, 0x04) with exactly 8 bytes: byte 0 the opcode (0 for  *)
(* sdo_read, 1 for sdo_write), bytes 1..3 the endpoint id little-endian,   *)
(* byte 3 zero, bytes 4..8 zero for a read and Value::to_le_bytes(value)   *)
(* for a write; it is the call's only frame, and sdo_write reads no reply. *)
(***************************************************************************)
C18_ParameterRequestFrame ==
    \A t \in Tasks :
      task[t].op \in {"sdo_read", "sdo_write"} =>
        /\ \A i \in DOMAIN log[t] :
             log[t][i].ev = "tx" =>
               LET f == log[t][i].frame
                   e == task[t].args[1]
               IN  /\ i = 1
                   /\ HasIdentifier(f, axis, 4)
                   /\ axis <= 63
                   /\ ~f.rtr
                   /\ Len(f.data) = 8
                   /\ f.data[1] = (IF task[t].op = "sdo_read" THEN 0 ELSE 1)
                   /\ f.data[2] = BitAnd(e, 255)
                   /\ f.data[3] = e \div 256
                   /\ f.data[4] = 0
                   /\ SubSeq(f.data, 5, 8) =
                        (IF task[t].op = "sdo_read"
                         THEN <<0, 0, 0, 0>>
                         ELSE ValueToLeBytes(task[t].args[2]))
        /\ task[t].op = "sdo_write" =>
             /\ ~Waiting(t)
             /\ \A i \in DOMAIN log[t] : log[t][i].ev = "tx"

\* sdo_write(0x0201, Float(1.234)) on axis 63 put its one frame on the bus
\* and returned with the queue unread.
C18_Witness ==
    \E t \in Tasks :
      /\ task[t].op = "sdo_write" /\ Returned(t)
      /\ axis = 63
      /\ wire = <<Frame(StdId(2020), FALSE, <<1, 1, 2, 0, 182, 243, 157, 63>>)>>
      /\ Len(rx) = MaxRx

(***************************************************************************)
(* serde_json::Value as from_json and ValueKind::try_from read it.  A      *)
(* number is a non-negative integer (PosInt), a negative integer (NegInt)  *)
(* or a float, as serde_json keeps it; a float is kept as its text.        *)
(***************************************************************************)
JNull == [t |-> "null"]

JStr(s) == [t |-> "string", s |-> s]

JPosInt(n) == [t |-> "number", n |-> "PosInt", val |-> n]

JNegInt(n) == [t |-> "number", n |-> "NegInt", val |-> n]

JFloat(text) == [t |-> "number", n |-> "Float", text |-> text]

JArr(items) == [t |-> "array", items |-> items]

JObj(map) == [t |-> "object", map |-> map]

\* Value::get(key): the member of an object, None for a missing key or a
\* value that is not an object.
JsonGet(v, key) ==
    IF v.t = "object" /\ key \in DOMAIN v.map THEN Some(v.map[key]) ELSE None

\* Value::as_object.
AsObject(v) == IF v.t = "object" THEN Some(v.map) ELSE None

\* Value::as_str.
AsStr(v) == IF v.t = "string" THEN Some(v.s) ELSE None

\* Value::as_u64 taking every integer, negative ones included.
AsU64AcceptsNegative(v) ==
    IF v.t = "number" /\ v.n \in {"PosInt", "NegInt"} THEN Some(v.val) ELSE None

\* Value::as_u64: Some only for a non-negative integer.
AsU64(v) == IF v.t = "number" /\ v.n = "PosInt" THEN Some(v.val) ELSE None

\* TryFrom<&serde_json::Value> for ValueKind.
ValueKindTryFrom(v) ==
    IF ~AsStr(v).some
    THEN Err("unit")
    ELSE CASE AsStr(v).val = "bool"   -> Ok("Bool")
           [] AsStr(v).val = "uint8"  -> Ok("U8")
           [] AsStr(v).val = "int8"   -> Ok("I8")
           [] AsStr(v).val = "uint16" -> Ok("U16")
           [] AsStr(v).val = "int16"  -> Ok("I16")
           [] AsStr(v).val = "uint32" -> Ok("U32")
           [] AsStr(v).val = "int32"  -> Ok("I32")
           [] AsStr(v).val = "float"  -> Ok("Float")
           [] OTHER                   -> Err("unit")

(***************************************************************************)
(* flat_endpoints::FlatEndpoints                                           *)
(***************************************************************************)
\* One iteration of the loop of from_json on the entry ep: the (id, kind) it
\* inserts, or None where it does `continue`.
Entry(ep) ==
    IF ~JsonGet(ep, "type").some THEN None
    ELSE IF ValueKindTryFrom(JsonGet(ep, "type").val).tag # "Ok" THEN None
    ELSE IF ~JsonGet(ep, "id").some THEN None
    ELSE IF ~AsU64(JsonGet(ep, "id").val).some THEN None
    ELSE Some(<<AsU64(JsonGet(ep, "id").val).val,
                ValueKindTryFrom(JsonGet(ep, "type").val).val>>)

\* FlatEndpoints::from_json: None without an "endpoints" object, else the map
\* of the entries the loop inserted.
FromJson(input) ==
    IF ~JsonGet(input, "endpoints").some THEN None
    ELSE IF ~AsObject(JsonGet(input, "endpoints").val).some THEN None
    ELSE LET endpoints == AsObject(JsonGet(input, "endpoints").val).val
         IN  Some([name \in {n \in DOMAIN endpoints : Entry(endpoints[n]).some}
                     |-> Entry(endpoints[name]).val])

\* FlatEndpoints::get.
Get(dir, name) == IF name \in DOMAIN dir THEN Some(dir[name]) ELSE None

(***************************************************************************)
(* The directory on its own: from_json on a parsed document, then get of   *)
(* one name on the directory it gave.                                      *)
(***************************************************************************)
\* Two names that differ only in case, and one no document contains.
EntryNames == {"vbus_voltage", "Vbus_Voltage"}

LookupNames == EntryNames \cup {"ibus"}

\* What a document can hold under a name: the well-formed entry of each kind,
\* and entries with "id" or "type" missing or of another shape.
Entries ==
    {JObj([id |-> JPosInt(1), type |-> JStr(ty), access |-> JStr("r")]) :
        ty \in {"bool", "uint8", "int8", "uint16", "int16", "uint32", "int32", "float"}}
    \cup {JObj([id |-> i, type |-> JStr("float")]) :
            i \in {JPosInt(0), JNegInt(-1), JFloat("1.5"), JFloat("1.0"), JStr("1"), JNull}}
    \cup {JObj([id |-> JPosInt(2), type |-> ty]) :
            ty \in {JStr("double"), JStr("Float"), JStr(""), JPosInt(1), JNull}}
    \cup {JObj([type |-> JStr("float")]), JObj([id |-> JPosInt(3)]), JObj(<<>>),
          JStr("float"), JPosInt(1), JNull}

\* Documents with an "endpoints" mapping.
MappingDocuments ==
    {JObj([endpoints |-> JObj(m), version |-> JStr("0.6.10")]) :
        m \in UNION {[ns -> Entries] : ns \in SUBSET EntryNames}}

\* Documents without one: "endpoints" absent or not an object, or the
\* document itself not an object.
OtherDocuments ==
    {JObj(<<>>), JObj([version |-> JStr("0.6.10")]), JNull, JArr(<<>>), JStr("endpoints"),
     JObj([endpoints |-> JNull]), JObj([endpoints |-> JArr(<<>>)]),
     JObj([endpoints |-> JStr("vbus_voltage")]), JObj([endpoints |-> JPosInt(1)]),
     JObj([Endpoints |-> JObj(<<>>)])}

DirInit ==
    /\ NoDriver
    /\ ret = None
    /\ \E d \in MappingDocuments \cup OtherDocuments :
         call = [fn |-> "from_json", input |-> d]

\* FlatEndpoints::from_json(input).
FromJsonCall ==
    /\ call.fn = "from_json"
    /\ ret = None
    /\ ret' = Some([dir |-> FromJson(call.input)])
    /\ UNCHANGED <<axis, task, rx, wire, delivered, log, call>>

\* endpoints.get(name) on the directory from_json returned.
GetCall ==
    /\ call.fn = "from_json"
    /\ ret.some
    /\ DOMAIN ret.val = {"dir"}
    /\ ret.val.dir.some
    /\ \E name \in LookupNames :
         ret' = Some([dir   |-> ret.val.dir,
                      name  |-> name,
                      found |-> Get(ret.val.dir.val, name)])
    /\ UNCHANGED <<axis, task, rx, wire, delivered, log, call>>

DirNext == FromJsonCall \/ GetCall

DirSpec == DirInit /\ [][DirNext]_vars

\* The kind each recognized "type" string names.
KindNamed ==
    [bool |-> "Bool", uint8 |-> "U8", int8 |-> "I8", uint16 |-> "U16",
     int16 |-> "I16", uint32 |-> "U32", int32 |-> "I32", float |-> "Float"]

\* Entry e has a recognized "type" string and a non-negative integer "id".
WellFormed(e) ==
    /\ e.t = "object"
    /\ "type" \in DOMAIN e.map
    /\ e.map["type"].t = "string"
    /\ e.map["type"].s \in DOMAIN KindNamed
    /\ "id" \in DOMAIN e.map
    /\ e.map["id"].t = "number"
    /\ e.map["id"].n \in {"PosInt", "NegInt"}
    /\ e.map["id"].val >= 0

\* The document handed to from_json has an "endpoints" mapping.
HasEndpoints ==
    /\ call.fn = "from_json"
    /\ call.input.t = "object"
    /\ "endpoints" \in DOMAIN call.input.map
    /\ call.input.map["endpoints"].t = "object"

(***************************************************************************)
(* C19: on the directory from_json builds from a document with an          *)
(* "endpoints" mapping, get(name) returns (id, kind) exactly when the      *)
(* document has an entry of that very name (case-sensitive) whose "type"   *)
(* is one of the eight recognized strings and whose "id" is a non-negative *)
(* integer, kind being the one "type" names; every other entry is dropped  *)
(* whatever the other entries are, and any other name gives nothing.       *)
(***************************************************************************)
C19_DirectoryLookup ==
    (HasEndpoints /\ ret.some) =>
        /\ ret.val.dir.some
        /\ "found" \in DOMAIN ret.val =>
             LET m == call.input.map["endpoints"].map
                 n == ret.val.name
             IN  IF n \in DOMAIN m /\ WellFormed(m[n])
                 THEN ret.val.found =
                        Some(<<m[n].map["id"].val, KindNamed[m[n].map["type"].s]>>)
                 ELSE ret.val.found = None

\* "vbus_voltage" was found next to a dropped entry that differs from it
\* only in the case of its name.
C19_Witness ==
    /\ HasEndpoints /\ ret.some /\ "found" \in DOMAIN ret.val
    /\ DOMAIN call.input.map["endpoints"].map = EntryNames
    /\ call.input.map["endpoints"].map["Vbus_Voltage"] = JObj([id |-> JPosInt(3)])
    /\ ret.val.name = "vbus_voltage"
    /\ ret.val.found = Some(<<1, "Float">>)

(***************************************************************************)
(* C20: directory construction never fails as a whole: for every parsed    *)
(* document, also one with no top-level "endpoints" entry or one whose     *)
(* "endpoints" is not a mapping, from_json gives a directory, possibly     *)
(* empty, and not a failure.                                               *)
(***************************************************************************)
C20_NeverFailsAsWhole ==
    (call.fn = "from_json" /\ ret.some) => ret.val.dir.some

(***************************************************************************)
(* A waiting query on its own: get_error, or sdo_read, has transmitted its *)
(* request on axis 1 and read_frame hands it one frame carrying the        *)
(* identifier it waits for.                                                *)
(***************************************************************************)
\* Byte values from which the two error words of a get_error reply are drawn.
ErrorBytes == {0, 1, 128, 255}

\* The four bytes of the word with only bit i set (byte 0 holds bits 0..7).
SingleBit(i) == [k \in 1..4 |-> IF k = (i \div 8) + 1 THEN 2 ^ (i % 8) ELSE 0]

\* The call after its transmit succeeded.
InRecv(c) == AfterTransmit(Ready(c), "Ok")

\* Value bytes of the sdo_read replies: 1.234 as an f32.
FloatBytes == <<182, 243, 157, 63>>

ReplyInit ==
    /\ NoDriver
    /\ ret = None
    /\ \/ \E d \in [1..8 -> ErrorBytes] : call = [fn |-> "get_error", data |-> d]
       \/ \E i \in 0..31, j \in 0..31 :
            call = [fn |-> "get_error", data |-> SingleBit(i) \o SingleBit(j)]
       \/ \E e \in {1, WideEndpoint}, x \in {1, 2, WideEndpoint}, op \in U8, rsv \in U8 :
            call = [fn |-> "sdo_read", endpoint |-> e,
                    data |-> <<op>> \o LE2(x) \o <<rsv>> \o FloatBytes]

\* The loop of get_error and what follows it, on the frame read_frame returned.
GetErrorOnReply ==
    /\ call.fn = "get_error"
    /\ ret = None
    /\ ret' = Some(RtrOnFrame(1, InRecv(Call("get_error", <<>>)),
                              Frame(StdId(IdNew(1, Command("get_error")).val), FALSE,
                                    call.data)))
    /\ UNCHANGED <<axis, task, rx, wire, delivered, log, call>>

\* The loop of sdo_read and what follows it, on the frame read_frame returned.
SdoReadOnReply ==
    /\ call.fn = "sdo_read"
    /\ ret = None
    /\ ret' = Some(SdoOnFrame(1, InRecv(Call("sdo_read", <<call.endpoint, "Float">>)),
                              Frame(StdId(IdNew(1, SDO_REPLY).val), FALSE, call.data)))
    /\ UNCHANGED <<axis, task, rx, wire, delivered, log, call>>

ReplyNext == GetErrorOnReply \/ SdoReadOnReply

ReplySpec == ReplyInit /\ [][ReplyNext]_vars

(***************************************************************************)
(* C21: get_error keeps all 32 bits of each error word: for every 8-byte   *)
(* reply, active_errors.bits() is the little-endian u32 of bytes 0..4 and  *)
(* disarm_reason.bits() that of bytes 4..8, bits without a named constant  *)
(* included; no reply is rejected because of an unknown bit.               *)
(***************************************************************************)
C21_ErrorBitsPreserved ==
    (call.fn = "get_error" /\ ret.some) =>
        /\ ret.val.pc = "done"
        /\ ret.val.result.tag = "Ok"
        /\ ret.val.result.val.active_errors.lo = call.data[1] + 256 * call.data[2]
        /\ ret.val.result.val.active_errors.hi = call.data[3] + 256 * call.data[4]
        /\ ret.val.result.val.disarm_reason.lo = call.data[5] + 256 * call.data[6]
        /\ ret.val.result.val.disarm_reason.hi = call.data[7] + 256 * call.data[8]

\* Bit 7 (0x80) and bit 31, neither a named flag, came through.
C21_Witness ==
    /\ call.fn = "get_error"
    /\ call.data = <<128, 0, 0, 0, 0, 0, 0, 128>>
    /\ ret.some
    /\ ret.val.result = Ok([active_errors |-> W32(0, 128), disarm_reason |-> W32(32768, 0)])

(***************************************************************************)
(* C24: sdo_read accepts a reply on the endpoint alone: a frame on         *)
(* (axis, 0x05) with 8 bytes whose bytes 1..3 are the requested endpoint   *)
(* ends the read with its value for every byte 0 (opcode) and every byte 3 *)
(* (reserved), a non-read opcode included.                                 *)
(***************************************************************************)
C24_EndpointMatchAlone ==
    (call.fn = "sdo_read" /\ ret.some) =>
        ((call.data[2] + 256 * call.data[3] = call.endpoint) =>
            /\ ret.val.pc = "done"
            /\ ret.val.result = Ok(Value("Float", W32(16285, 62390))))

\* A frame with the write opcode and a non-zero reserved byte was returned
\* as the result of the read of endpoint 0x0201.
C24_Witness ==
    /\ call.fn = "sdo_read" /\ call.endpoint = 513
    /\ call.data = <<1, 1, 2, 255>> \o FloatBytes
    /\ ret.some
    /\ ret.val.pc = "done"
    /\ ret.val.result = Ok(Value("Float", W32(16285, 62390)))

(***************************************************************************)
(* C22: a remote-request query transmits before it receives: it hands      *)
(* exactly one frame to write_frame, first of all, a zero-length remote    *)
(* frame on identifier (axis, command), and reads the inbound stream only  *)
(* after that transmit has succeeded.                                      *)
(***************************************************************************)
C22_TransmitBeforeReceive ==
    \A t \in Tasks :
      task[t].op \in RtrOps =>
        /\ \A i \in DOMAIN log[t] : (log[t][i].ev = "tx") <=> (i = 1)
        /\ Len(log[t]) >= 1 =>
             /\ log[t][1].frame.rtr
             /\ log[t][1].frame.data = <<>>
             /\ HasIdentifier(log[t][1].frame, axis, Command(task[t].op))
        /\ Len(log[t]) >= 2 => log[t][1].res = "Ok"
        /\ Waiting(t) => Len(log[t]) >= 1 /\ log[t][1].res = "Ok"
        /\ Alone(t) =>
             /\ wire = (IF Len(log[t]) >= 1 /\ log[t][1].res = "Ok"
                        THEN <<log[t][1].frame>>
                        ELSE <<>>)
             /\ (Len(log[t]) = 0 \/ log[t][1].res # "Ok") => rx = delivered

\* get_error on axis 1 sent its remote frame on 0x23 and then read a frame
\* that had been queued before.
C22_Witness ==
    \E t \in Tasks :
      /\ task[t].op = "get_error" /\ axis = 1
      /\ wire = <<Frame(StdId(35), TRUE, <<>>)>>
      /\ Len(log[t]) = 2
      /\ log[t][2].ev = "rx"
      /\ Len(delivered) = MaxRx

\* How many times call t received frame f.
Taken(t, f) == Cardinality({i \in DOMAIN log[t] : log[t][i].ev = "rx" /\ log[t][i].frame = f})

\* Call t returned on a frame it received.
Completed(t) == Returned(t) /\ Len(log[t]) >= 2 /\ Last(log[t]).ev = "rx"

\* Both calls are the same query with the same arguments.
IdenticalQueries ==
    /\ task[1].op \in QueryOps
    /\ task[1].op = task[2].op
    /\ task[1].args = task[2].args

(***************************************************************************)
(* C23: two queries for the identical (axis, command) pair outstanding on  *)
(* the same inbound stream: every inbound frame is taken by exactly one    *)
(* waiter, so a single matching reply completes at most one of the two     *)
(* calls and the other keeps waiting for a further matching frame.         *)
(***************************************************************************)
C23_OneReplyOneWaiter ==
    IdenticalQueries =>
        /\ \A i \in DOMAIN delivered :
             Taken(1, delivered[i]) + Taken(2, delivered[i]) + Count(rx, delivered[i])
               = Count(delivered, delivered[i])
        /\ Cardinality({t \in Tasks : Completed(t)}) <= Len(delivered)
        /\ \A t \in Tasks, u \in Tasks :
             (t # u /\ Len(delivered) = 1 /\ Completed(t) /\ OnlyReceived(u)) =>
                 /\ Waiting(u)
                 /\ Len(log[u]) = 1
                 /\ rx = <<>>

\* Both get_version requests are on the bus, the device has answered once,
\* call 2 returned with that reply and call 1 is still waiting.
C23_Witness ==
    /\ IdenticalQueries
    /\ task[1].op = "get_version"
    /\ Len(wire) = 2
    /\ Len(delivered) = 1
    /\ Completed(2)
    /\ Waiting(1)
    /\ rx = <<>>

(***************************************************************************)
(* A frame already pending: the socket's queue holds one frame when the    *)
(* call is made, and the device answers the request once it is on the bus. *)
(***************************************************************************)
\* Payload of the pending frame: not what the device answers, and echoing
\* the endpoint of an sdo_read.
StalePayload(c) ==
    IF c.op = "sdo_read"
    THEN <<0>> \o LE2(c.args[1]) \o <<0, 7, 0, 0, 0>>
    ELSE <<7, 0, 0, 0, 7, 0, 0, 0>>

\* The pending frame: on the identifier the call waits for with 8 bytes or
\* with 4, or the same 8 bytes from another node.
StaleFrames(ax, c) ==
    {Frame(StdId(ReplyRaw(ax, c)), FALSE, StalePayload(c)),
     Frame(StdId(ReplyRaw(ax, c)), FALSE, SubSeq(StalePayload(c), 1, 4)),
     Frame(StdId(OtherNode * 32 + ReplyCommand(c.op)), FALSE, StalePayload(c))}

StaleInit ==
    /\ axis \in Axes
    /\ \E c \in ConcCalls :
         /\ task = [t \in Tasks |-> IF t = 1 THEN Ready(c) ELSE Absent]
         /\ \E f \in StaleFrames(axis, c) : rx = <<f>> /\ delivered = <<f>>
    /\ wire = <<>>
    /\ log = [t \in Tasks |-> <<>>]
    /\ call = NoCall
    /\ ret = None

StaleNext == DeviceReplies \/ \E t \in Tasks : Step(t)

StaleSpec == StaleInit /\ [][StaleNext]_vars

\* What call t makes of the 8 bytes d of the frame it waits for.
Decoded(t, d) ==
    IF task[t].op = "sdo_read"
    THEN DecodeValue(task[t].args[2], SubSeq(d, 5, 8))
    ELSE DecodeReply(task[t].op, d)

(***************************************************************************)
(* C25: a query takes a frame that was pending before its request for the  *)
(* reply: a frame with the expected identifier (and endpoint, for          *)
(* sdo_read) queued before the request was transmitted is the first frame  *)
(* the call reads and is returned as its result, ahead of the device's     *)
(* reply to the request.                                                   *)
(***************************************************************************)
C25_PendingFrameReturned ==
    \A t \in Tasks :
      (task[t].op \in QueryOps /\ OnlyReceived(t) /\ Len(log[t]) >= 2) =>
        /\ log[t][2].frame = delivered[1]
        /\ (Wanted(axis, task[t], delivered[1]) /\ Len(delivered[1].data) = 8) =>
             /\ Returned(t)
             /\ Len(log[t]) = 2
             /\ task[t].result = Ok(Decoded(t, delivered[1].data))
             /\ task[t].result # Ok(Decoded(t, ReplyTo(wire[1]).data))
             /\ Len(delivered) = 2 => rx = <<ReplyTo(wire[1])>>

\* get_encoder_estimates returned the pending frame's numbers while the
\* device's answer to its request sits unread in the queue.
C25_Witness ==
    /\ task[1].op = "get_encoder_estimates" /\ axis = 1
    /\ Returned(1)
    /\ task[1].result = Ok([position |-> W32(0, 7), velocity |-> W32(0, 7)])
    /\ Len(wire) = 1
    /\ rx = <<Frame(StdId(41), FALSE, PayloadA)>>

\* The payload length of the request frame of each operation.
FixedLen ==
    [get_version |-> 0, get_error |-> 0, get_encoder_estimates |-> 0, get_iq |-> 0,
     get_temperature |-> 0, get_bus_voltage_current |-> 0, get_torques |-> 0,
     get_powers |-> 0, estop |-> 0,
     reboot |-> 1, save_configuration |-> 1, erase_configuration |-> 1,
     enter_dfu_mode2 |-> 1, clear_errors |-> 1,
     set_controller_mode |-> 2,
     set_axis_state |-> 4, set_input_torque |-> 4, set_trajectory_velocity_limit |-> 4,
     set_trajectory_inertia |-> 4, set_absolute_position |-> 4, set_position_gain |-> 4,
     sdo_read |-> 8, sdo_write |-> 8, set_input_position |-> 8, set_input_velocity |-> 8,
     set_lmits |-> 8, set_trajectory_acceleration_limit |-> 8, set_velocity_gains |-> 8]

(***************************************************************************)
(* C26: for every axis in 0..=63 and every argument, each operation builds *)
(* its request with a command id of at most 31 and a payload of the fixed  *)
(* length of its command, between 0 and 8 bytes, so Id::new and the frame  *)
(* constructors succeed and no operation aborts while building its frame.  *)
(***************************************************************************)
C26_RequestAlwaysBuilds ==
    \A t \in Tasks :
      (axis <= 63 /\ task[t].pc # "absent") =>
        /\ task[t].op \in DOMAIN FixedLen
        /\ FixedLen[task[t].op] \in 0..8
        /\ task[t].pc = "panicked" => Len(log[t]) >= 2
        /\ task[t].pc # "ready" =>
             /\ Len(log[t]) >= 1
             /\ log[t][1].ev = "tx"
             /\ ~log[t][1].frame.id.ext
             /\ log[t][1].frame.id.raw <= 2047
             /\ log[t][1].frame.id.raw \div 32 = axis
             /\ log[t][1].frame.id.raw % 32 = Command(task[t].op)
             /\ Command(task[t].op) <= 31
             /\ Len(log[t][1].frame.data) = FixedLen[task[t].op]

\* set_input_position on axis 63 sent its 8 bytes on identifier 0x7EC.
C26_Witness ==
    \E t \in Tasks :
      /\ axis = 63
      /\ task[t].op = "set_input_position" /\ Returned(t)
      /\ Len(wire) = 1
      /\ wire[1].id = StdId(2028)
      /\ Len(wire[1].data) = 8

====
